---- MODULE Spec2Model ----
(***************************************************************************)
(* A state-machine model of opennmt/models/model.py: the lifecycle of a    *)
(* Model (initialize, build, forward, create_variables), the optimizer     *)
(* factory get_optimizer, compute_gradients, and apply_gradients with the  *)
(* delayed (accumulated) update it delegates to optim.delayed_update.      *)
(*                                                                         *)
(* optim.delayed_update, the concrete model variants' call() and the       *)
(* Keras machinery are not part of model.py; they are modelled from their  *)
(* documented contract and are marked as such where they are defined.      *)
(***************************************************************************)
EXTENDS Integers, Sequences, FiniteSets, TLC

\* ------------------------------------------------------------------ bounds
NumParams == 2          \* trainable parameters a built model owns
MaxAccum == 3           \* largest configured gradients_accum
MaxSteps == 4           \* operations explored in one run
NumCallers == 2         \* callers whose create_variables calls may interleave

\* ------------------------------------------------------------- vocabulary
None == "None"
ParamIds == 1..NumParams
GradValues == {0, 1}
Optimizers == {"opt1", "opt2"}
Callers == 1..NumCallers
Modes == {"TRAIN", "EVAL", "PREDICT"}
NoError == "none"

VARIABLES
  initialized,      \* examples_inputter.initialize has run
  inputterBuilds,   \* number of examples_inputter.build calls
  labels_inputter,  \* TRUE iff the examples inputter has a labels inputter
  built,            \* tf.keras.Model.built
  allocated,        \* the variables of the model exist
  forwardCount,     \* number of forward passes (self(...)) run
  created,          \* number of create_variables calls that returned
  allocations,      \* number of times the parameter set was allocated
  values,           \* parameter id -> current value (meaningful when allocated)
  hypers,           \* optimizer -> its hyperparameter state exists
  slotCreations,    \* optimizer -> number of _create_slots calls
  slotVars,         \* optimizer -> the variables its slots were created over
  gradients_accum,  \* params["gradients_accum"] of the session: <<n>>, or
                    \* << >> when the configuration does not carry the key
  model_step,       \* the accumulator's call counter c
  accum,            \* parameter id -> accumulator buffer, for the
                    \* parameters that have one
  step,             \* the external step counter
  applyCalls,       \* number of apply_gradients calls made
  updates,          \* number of invocations of the optimizer's update rule
  lrEvals,          \* number of evaluations of the learning-rate schedule
  lrStep,           \* the step the schedule was last evaluated at, -1 when
                    \* it never was
  lastUpdate,       \* parameter id -> gradient given to the last update
  received,         \* gradient lists received since the last update
  lastSum,          \* parameter id -> sum of the gradient lists received
                    \* between the last two updates
  direct,           \* [values, step] of a run applying each gradient directly
  ops,              \* number of operations made
  dryRuns,          \* number of dry runs create_variables has made
  calls,            \* caller -> its create_variables call: where it is
                    \* (pc) and the optimizer it was given
  overlapped,       \* a create_variables call began while another one was
                    \* between its built test and its return
  last              \* the last operation: its name, its error, what it built

vars == << initialized, inputterBuilds, labels_inputter, built, allocated,
           forwardCount, created, allocations, values, hypers, slotCreations, slotVars,
           gradients_accum, model_step, accum, step, applyCalls,
           updates, lrEvals, lrStep, lastUpdate, received, lastSum, direct, ops,
           dryRuns, calls, overlapped, last >>

lifecycleVars == << initialized, inputterBuilds, built, allocated,
                    forwardCount, allocations >>
optimizerVars == << hypers, slotCreations, slotVars >>
trainingVars == << values, model_step, accum, step, applyCalls, updates,
                   lrEvals, lrStep, lastUpdate, received, lastSum, direct >>
sessionVars == << labels_inputter, gradients_accum >>
callVars == << dryRuns, calls, overlapped >>

Zeros == [p \in ParamIds |-> 0]

\* ---------------------------------------------------------------- helpers
\* an optional argument or configuration value: << >> when absent (None),
\* << v >> when present
Optional(S) == {<< >>} \cup { << v >> : v \in S }

Min(a, b) == IF a < b THEN a ELSE b

RECURSIVE SumAt(_, _)
\* the sum of the p-th entries of the gradient lists in seq that have one
SumAt(seq, p) ==
  IF seq = << >> THEN 0
  ELSE (IF p <= Len(Head(seq)) THEN Head(seq)[p] ELSE 0) + SumAt(Tail(seq), p)

\* self.unsupervised
unsupervised == ~labels_inputter

\* the ordered variables the layers of the model create on their first run
AllVariables == [i \in 1..NumParams |-> i]

\* self.trainable_variables: none before the layers have run
trainable_variables == IF allocated THEN AllVariables ELSE << >>

Range(seq) == { seq[i] : i \in DOMAIN seq }

\* a pairing that runs through the variables from the last one
ZipReversed(gradients, variables) ==
  [i \in 1..Min(Len(gradients), Len(variables)) |->
     << gradients[i], variables[Len(variables) + 1 - i] >>]

\* list(zip(gradients, variables)): pairs up to the shorter of the two
Zip(gradients, variables) ==
  [i \in 1..Min(Len(gradients), Len(variables)) |->
     << gradients[i], variables[i] >>]

\* the gradient lists a caller obtains for the given variables
GradLists(variables) == [1..Len(variables) -> GradValues]

\* ---------------------------------------------------------------- results
\* the record `last` keeps of an operation
Result(op, err) ==
  [op |-> op, err |-> err, allocatedBefore |-> allocated,
   keys |-> {}, schedule |-> FALSE, optimizer |-> FALSE,
   steps |-> << >>, nvars |-> 0, committed |-> FALSE,
   scale |-> << >>, clip |-> << >>, opt |-> None, dryRun |-> << >>,
   ngrads |-> 0, npairs |-> 0]

\* ------------------------------------------------------------- lifecycle
\* Model.initialize: forwards to the examples inputter
Initialize ==
  /\ ops < MaxSteps
  /\ initialized' = TRUE
  /\ ops' = ops + 1
  /\ last' = Result("initialize", NoError)
  /\ UNCHANGED << inputterBuilds, built, allocated, forwardCount, allocations >>
  /\ UNCHANGED << optimizerVars, trainingVars, sessionVars, created, callVars >>

\* Model.build: builds the examples inputter and raises the built flag
Build ==
  /\ ops < MaxSteps
  /\ inputterBuilds' = inputterBuilds + 1
  /\ built' = TRUE
  /\ ops' = ops + 1
  /\ last' = Result("build", NoError)
  /\ UNCHANGED << initialized, allocated, forwardCount, allocations >>
  /\ UNCHANGED << optimizerVars, trainingVars, sessionVars, created, callVars >>

\* a concrete variant's call() rejects absent labels of a supervised model
\* outside inference
MissingLabels(labelsPresent, mode) ==
  ~unsupervised /\ ~labelsPresent /\ mode # "PREDICT"

\* self(features, labels, params, mode) when call() accepts its arguments:
\* Keras builds the model first when it is not built (Model.build), then
\* call() runs and the layers create their variables on their first run
RunModel ==
  /\ inputterBuilds' = IF built THEN inputterBuilds ELSE inputterBuilds + 1
  /\ built' = TRUE
  /\ allocated' = TRUE
  /\ allocations' = IF allocated THEN allocations ELSE allocations + 1
  /\ values' = IF allocated THEN values ELSE Zeros
  /\ forwardCount' = forwardCount + 1
  /\ initialized' = initialized

\* a forward pass made by the training loop
Forward(labelsPresent, mode) ==
  /\ ops < MaxSteps
  /\ ops' = ops + 1
  /\ IF MissingLabels(labelsPresent, mode)
     THEN /\ last' = Result("forward", "MissingLabelsError")
          /\ UNCHANGED << lifecycleVars, values >>
     ELSE /\ last' = Result("forward", NoError)
          /\ RunModel
  /\ UNCHANGED << optimizerVars, sessionVars, created, callVars >>
  /\ UNCHANGED << model_step, accum, step, applyCalls, updates, lrEvals,
                  lrStep, lastUpdate, received, lastSum, direct >>

\* a guard that never returns early
GuardNever == FALSE

\* the guard of create_variables: return at once when the model is built
CreateVariablesGuard == built

\* slot targets read before the dry run
SlotTargetsBeforeRun == Range(trainable_variables)

\* the variables create_variables hands to optimizer._create_slots:
\* self.trainable_variables, read after the dry run
SlotTargets == Range(AllVariables)

\* a dry run made in training mode
DryRunModeTrain == "TRAIN"

\* the mode of the dry run of create_variables:
\* self(features, None, params, tf.estimator.ModeKeys.PREDICT)
DryRunMode == "PREDICT"

\* Model.create_variables
CreateVariables(optimizer) ==
  /\ ops < MaxSteps
  /\ ops' = ops + 1
  /\ IF CreateVariablesGuard
     THEN /\ last' = [Result("create_variables", NoError) EXCEPT
                        !.opt = optimizer]
          /\ created' = created + 1
          /\ UNCHANGED << lifecycleVars, values, optimizerVars, dryRuns >>
     ELSE IF MissingLabels(FALSE, DryRunMode)
     THEN \* the dry run raises: nothing after it is reached
          /\ last' = [Result("create_variables", "MissingLabelsError") EXCEPT
                        !.opt = optimizer, !.dryRun = << DryRunMode, None >>]
          /\ dryRuns' = dryRuns + 1
          /\ UNCHANGED << lifecycleVars, values, optimizerVars, created >>
     ELSE \* _run.get_concrete_function(): one pass without labels
          /\ last' = [Result("create_variables", NoError) EXCEPT
                        !.opt = optimizer, !.dryRun = << DryRunMode, None >>]
          /\ dryRuns' = dryRuns + 1
          /\ created' = created + 1
          /\ RunModel
          /\ IF optimizer # None
             THEN /\ hypers' = [hypers EXCEPT ![optimizer] = TRUE]
                  /\ slotCreations' =
                       [slotCreations EXCEPT ![optimizer] = @ + 1]
                  /\ slotVars' = [slotVars EXCEPT ![optimizer] = SlotTargets]
             ELSE UNCHANGED optimizerVars
  /\ UNCHANGED << sessionVars, calls, overlapped >>
  /\ UNCHANGED << model_step, accum, step, applyCalls, updates, lrEvals,
                  lrStep, lastUpdate, received, lastSum, direct >>

\* ------------------------------------------------------------- optimizer
ConfigKeys == {"learning_rate", "optimizer", "decay_type"}

\* the error of a lookup params[key] of a key the dictionary lacks
KeyError == "KeyError"

\* a lookup that falls back to a default for a missing key
LookupDefaulted(params, key) == TRUE

\* params[key] succeeds
Lookup(params, key) == key \in params

\* Model.get_optimizer on the set of keys the configuration carries (no
\* configuration is taken as the empty dictionary): what it constructed and
\* the error it raised
get_optimizer(given) ==
  LET params == IF given = << >> THEN {} ELSE given[1] IN
  IF ~Lookup(params, "learning_rate")
  THEN [err |-> KeyError, schedule |-> FALSE, optimizer |-> FALSE]
  ELSE LET schedule == "decay_type" \in params IN
       IF ~Lookup(params, "optimizer")
       THEN [err |-> KeyError, schedule |-> schedule, optimizer |-> FALSE]
       ELSE [err |-> NoError, schedule |-> schedule, optimizer |-> TRUE]

GetOptimizer(given) ==
  /\ ops < MaxSteps
  /\ ops' = ops + 1
  /\ LET r == get_optimizer(given) IN
     last' = [Result("get_optimizer", r.err) EXCEPT
                !.keys = (IF given = << >> THEN {} ELSE given[1])
                           \cap {"learning_rate", "optimizer"},
                !.schedule = r.schedule, !.optimizer = r.optimizer]
  /\ UNCHANGED << lifecycleVars, optimizerVars, trainingVars, sessionVars,
                  created, callVars >>

\* ------------------------------------------------------------- gradients
ScaleValues == {0 - 1, 1}
ClipValues == {0, 1}

\* a computation that differentiates first and adds the penalty afterwards
compute_gradients_penalty_late(regularization, clip_gradients) ==
  LET variables == trainable_variables IN
  [err |-> NoError,
   nvars |-> Len(variables),
   steps |-> << "get_gradients" >>
             \o (IF regularization # << >> THEN << "regularization_penalty" >>
                 ELSE << >>)
             \o (IF clip_gradients # << >> THEN << "clip_by_global_norm" >>
                 ELSE << >>)]

\* Model.compute_gradients: the variables it differentiates against and the
\* steps it takes, in order
compute_gradients(regularization, clip_gradients) ==
  LET variables == trainable_variables IN
  [err |-> NoError,
   nvars |-> Len(variables),
   steps |-> (IF regularization # << >> THEN << "regularization_penalty" >>
              ELSE << >>)
             \o << "get_gradients" >>
             \o (IF clip_gradients # << >> THEN << "clip_by_global_norm" >>
                 ELSE << >>)]

\* a computation that also advances the step counter, as
\* optimizer.minimize would
ComputeGradientsCountingStep(regularization, clip_gradients) ==
  /\ ops < MaxSteps
  /\ ops' = ops + 1
  /\ LET r == compute_gradients(regularization, clip_gradients) IN
     last' = [Result("compute_gradients", r.err) EXCEPT
                !.steps = r.steps, !.nvars = r.nvars,
                !.scale = regularization, !.clip = clip_gradients]
  /\ step' = step + 1
  /\ UNCHANGED << values, model_step, accum, applyCalls, updates, lrEvals,
                  lrStep, lastUpdate, received, lastSum, direct >>
  /\ UNCHANGED << lifecycleVars, optimizerVars, sessionVars, created, callVars >>

ComputeGradients(regularization, clip_gradients) ==
  /\ ops < MaxSteps
  /\ ops' = ops + 1
  /\ LET r == compute_gradients(regularization, clip_gradients) IN
     last' = [Result("compute_gradients", r.err) EXCEPT
                !.steps = r.steps, !.nvars = r.nvars,
                !.scale = regularization, !.clip = clip_gradients]
  /\ UNCHANGED << lifecycleVars, optimizerVars, trainingVars, sessionVars,
                  created, callVars >>

\* the learning-rate schedule of the optimizer
LearningRate(s) == 1

\* the update rule of the optimizer: one update of the parameters that have
\* a gradient, at the learning rate of step s
ApplyUpdate(vals, grads, s) ==
  [p \in ParamIds |-> IF p \in DOMAIN grads
                      THEN vals[p] - LearningRate(s) * grads[p]
                      ELSE vals[p]]

\* an accumulation count read under a key the configuration never carries:
\* params.get("gradients_accum_count", 1) always yields the default
AccumCountWrongKey ==
  IF "gradients_accum_count" \in {"gradients_accum"}
  THEN gradients_accum[1] ELSE 1

\* an accumulation count that counts one call too many
AccumCountOffByOne ==
  IF gradients_accum = << >> THEN 1 ELSE gradients_accum[1] + 1

\* an accumulation count whose default accumulates
AccumCountDefaultTwo ==
  IF gradients_accum = << >> THEN 2 ELSE gradients_accum[1]

\* params.get("gradients_accum", 1)
AccumCount == IF gradients_accum = << >> THEN 1 ELSE gradients_accum[1]

\* the gradient paired with variable p, 0 when there is none
GradientOf(pairs, p) ==
  IF \E i \in DOMAIN pairs : pairs[i][2] = p
  THEN pairs[CHOOSE i \in DOMAIN pairs : pairs[i][2] = p][1]
  ELSE 0

\* optim.delayed_update(optimizer, grads_and_vars, accum_count, global_step):
\* add each gradient into its variable's buffer (zero on first use), count
\* the call, and on the accum_count-th call update once with the sums
delayed_update(pairs, accum_count, withStep) ==
  LET buffers == DOMAIN accum \cup { pairs[i][2] : i \in DOMAIN pairs }
      added == [p \in buffers |->
                  (IF p \in DOMAIN accum THEN accum[p] ELSE 0)
                  + GradientOf(pairs, p)]
      c == model_step + 1
  IN
  IF c = accum_count
  THEN \* commit: one update with the accumulated sums, then reset
       /\ values' = ApplyUpdate(values, added, step)
       /\ lastUpdate' = added
       /\ updates' = updates + 1
       /\ lrEvals' = lrEvals + 1
       /\ lrStep' = step
       /\ step' = IF withStep THEN step + 1 ELSE step
       /\ accum' = [p \in buffers |-> 0]
       /\ model_step' = 0
  ELSE \* accumulate only
       /\ accum' = added
       /\ model_step' = c
       /\ UNCHANGED << values, lastUpdate, updates, lrEvals, lrStep, step >>

\* variables = self.trainable_variables when no variables are given
TargetVariables(variablesArg) ==
  IF variablesArg = << >> THEN trainable_variables ELSE variablesArg[1]

\* Model.apply_gradients
ApplyGradientsTo(gradients, variablesArg) ==
  /\ ops < MaxSteps
  /\ ops' = ops + 1
  /\ applyCalls' = applyCalls + 1
  /\ delayed_update(Zip(gradients, TargetVariables(variablesArg)),
                    AccumCount, TRUE)
  /\ received' = IF updates' # updates THEN << >>
                 ELSE Append(received, gradients)
  /\ lastSum' = IF updates' # updates
                THEN [p \in ParamIds |-> SumAt(Append(received, gradients), p)]
                ELSE lastSum
  /\ direct' = [values |-> ApplyUpdate(direct.values, gradients, direct.step),
                step |-> direct.step + 1]
  /\ last' = [Result("apply_gradients", NoError) EXCEPT
                !.nvars = Len(TargetVariables(variablesArg)),
                !.ngrads = Len(gradients),
                !.npairs = Len(Zip(gradients, TargetVariables(variablesArg))),
                !.committed = (updates' # updates)]
  /\ UNCHANGED << lifecycleVars, optimizerVars, sessionVars, created, callVars >>

\* apply_gradients as the training loop calls it: the gradients that
\* compute_gradients returned, no variables given
ApplyGradients(gradients) == ApplyGradientsTo(gradients, << >>)

\* ------------------------------------------------------------------ spec
Init ==
  /\ initialized = FALSE
  /\ inputterBuilds = 0
  /\ labels_inputter \in BOOLEAN
  /\ built = FALSE
  /\ allocated = FALSE
  /\ forwardCount = 0
  /\ created = 0
  /\ allocations = 0
  /\ values = Zeros
  /\ hypers = [o \in Optimizers |-> FALSE]
  /\ slotCreations = [o \in Optimizers |-> 0]
  /\ slotVars = [o \in Optimizers |-> {}]
  /\ gradients_accum \in Optional(1..MaxAccum)
  /\ model_step = 0
  /\ accum = << >>
  /\ step = 0
  /\ applyCalls = 0
  /\ updates = 0
  /\ lrEvals = 0
  /\ lrStep = 0 - 1
  /\ lastUpdate = << >>
  /\ received = << >>
  /\ lastSum = Zeros
  /\ direct = [values |-> Zeros, step |-> 0]
  /\ ops = 0
  /\ dryRuns = 0
  /\ calls = [t \in Callers |-> [pc |-> "idle", opt |-> None]]
  /\ overlapped = FALSE
  /\ last = [Result("construct", NoError) EXCEPT !.allocatedBefore = FALSE]

Next ==
  \/ Initialize
  \/ Build
  \/ \E labelsPresent \in BOOLEAN, mode \in Modes : Forward(labelsPresent, mode)
  \/ \E optimizer \in Optimizers \cup {None} : CreateVariables(optimizer)
  \/ \E given \in Optional(SUBSET ConfigKeys) : GetOptimizer(given)
  \/ \E regularization \in Optional(ScaleValues),
        clip_gradients \in Optional(ClipValues) :
       ComputeGradients(regularization, clip_gradients)
  \/ \E gradients \in GradLists(trainable_variables) : ApplyGradients(gradients)

Spec == Init /\ [][Next]_vars

\* ------------------------------------------- create_variables, step by step
\* The statements of Model.create_variables as separate steps of a caller,
\* so that the calls of several callers can interleave between the built
\* test, the dry run and the creation of the optimizer state.

\* another caller is between its built test and its return
InProgress(t) ==
  \E u \in Callers \ {t} : calls[u].pc \in {"checked", "ran"}

\* `if self.built: return`
CreateVariablesTest(t, optimizer) ==
  /\ calls[t].pc = "idle"
  /\ overlapped' = (overlapped \/ InProgress(t))
  /\ IF CreateVariablesGuard
     THEN /\ calls' = [calls EXCEPT ![t] = [pc |-> "done", opt |-> optimizer]]
          /\ created' = created + 1
          /\ last' = [Result("create_variables", NoError) EXCEPT
                        !.opt = optimizer]
     ELSE /\ calls' = [calls EXCEPT
                         ![t] = [pc |-> "checked", opt |-> optimizer]]
          /\ UNCHANGED << created, last >>
  /\ UNCHANGED << lifecycleVars, values, optimizerVars, trainingVars,
                  sessionVars, ops, dryRuns >>

\* _run.get_concrete_function(): the dry run, one pass without labels
CreateVariablesDryRun(t) ==
  /\ calls[t].pc = "checked"
  /\ dryRuns' = dryRuns + 1
  /\ IF MissingLabels(FALSE, DryRunMode)
     THEN /\ calls' = [calls EXCEPT ![t].pc = "done"]
          /\ last' = [Result("create_variables", "MissingLabelsError") EXCEPT
                        !.opt = calls[t].opt,
                        !.dryRun = << DryRunMode, None >>]
          /\ UNCHANGED << lifecycleVars, values >>
     ELSE /\ calls' = [calls EXCEPT ![t].pc = "ran"]
          /\ RunModel
          /\ UNCHANGED last
  /\ UNCHANGED << optimizerVars, trainingVars, sessionVars, ops, created,
                  overlapped >>

\* `if optimizer is not None:` _create_hypers() and _create_slots(), return
CreateVariablesOptimizer(t) ==
  /\ calls[t].pc = "ran"
  /\ IF calls[t].opt # None
     THEN /\ hypers' = [hypers EXCEPT ![calls[t].opt] = TRUE]
          /\ slotCreations' = [slotCreations EXCEPT ![calls[t].opt] = @ + 1]
          /\ slotVars' = [slotVars EXCEPT ![calls[t].opt] = SlotTargets]
     ELSE UNCHANGED optimizerVars
  /\ calls' = [calls EXCEPT ![t].pc = "done"]
  /\ created' = created + 1
  /\ last' = [Result("create_variables", NoError) EXCEPT
                !.opt = calls[t].opt, !.dryRun = << DryRunMode, None >>]
  /\ UNCHANGED << lifecycleVars, values, trainingVars, sessionVars, ops,
                  dryRuns, overlapped >>

\* the callers' create_variables calls, interleaved with each other and with
\* build and forward passes
NextConc ==
  \/ Build
  \/ \E labelsPresent \in BOOLEAN, mode \in Modes : Forward(labelsPresent, mode)
  \/ \E t \in Callers, optimizer \in Optimizers \cup {None} :
       CreateVariablesTest(t, optimizer)
  \/ \E t \in Callers : CreateVariablesDryRun(t)
  \/ \E t \in Callers : CreateVariablesOptimizer(t)

SpecConc == Init /\ [][NextConc]_vars

\* ------------------------------------ apply_gradients with any two lists
\* the gradient lists a caller can pass: any length up to one more than the
\* number of variables
AnyGradLists == UNION { [1..n -> GradValues] : n \in 0..(NumParams + 1) }

\* the variables argument: not given, or a run of the trainable variables
VariablesArgs ==
  Optional({ SubSeq(trainable_variables, j, k) :
               j \in 1..Len(trainable_variables),
               k \in 1..Len(trainable_variables) } \ {<< >>})

NextMismatch ==
  \/ \E labelsPresent \in BOOLEAN, mode \in Modes : Forward(labelsPresent, mode)
  \/ \E gradients \in AnyGradLists, variablesArg \in VariablesArgs :
       ApplyGradientsTo(gradients, variablesArg)

SpecMismatch == Init /\ [][NextMismatch]_vars

\* ---------------------------------------------------------------- claims
\* the accumulation count the session configured, when it configured one
Configured == gradients_accum # << >>
N == gradients_accum[1]
IsApplyStep == applyCalls' = applyCalls + 1
BufferOf(buffers, p) == IF p \in DOMAIN buffers THEN buffers[p] ELSE 0

\* C1: an apply_gradients call that is not the N-th since the last commit
\* changes no parameter, runs no optimizer update, leaves the step counter
\* and the learning-rate evaluations alone; it changes only the accumulator,
\* whose buffers then hold the sum of the gradients received since the last
\* commit.
C1_AccumulatingCallFrame ==
  [][(IsApplyStep /\ Configured /\ model_step + 1 < N) =>
       /\ values' = values
       /\ updates' = updates
       /\ step' = step
       /\ lrEvals' = lrEvals
       /\ lastUpdate' = lastUpdate
       /\ model_step' = model_step + 1
       /\ \A p \in ParamIds : BufferOf(accum', p) = SumAt(received', p)]_vars

C1_Witness ==
  /\ last.op = "apply_gradients"
  /\ allocated
  /\ Configured /\ N = 3
  /\ model_step = 2
  /\ accum = << 2, 1 >>
  /\ values = Zeros /\ step = 0 /\ updates = 0

\* C2: after k apply_gradients calls with gradients_accum = N the step
\* counter is floor(k / N), and so is the number of commits.
C2_StepIsCallsOverN ==
  Configured => (step = applyCalls \div N /\ updates = applyCalls \div N)

C2_Witness ==
  /\ Configured /\ N = 2
  /\ allocated
  /\ applyCalls = 3
  /\ step = 1

\* C3: the N-th apply_gradients call since the last commit runs the
\* optimizer's update exactly once, with the sum of the N gradients received
\* for each parameter, and leaves the parameters as one direct update with
\* that sum does.
C3_CommitAppliesSum ==
  [][(IsApplyStep /\ Configured /\ Len(received) + 1 = N) =>
       /\ updates' = updates + 1
       /\ \A p \in ParamIds : BufferOf(lastUpdate', p) = lastSum'[p]
       /\ values' = ApplyUpdate(values, lastSum', step)]_vars

C3_Witness ==
  /\ Configured /\ N = 3
  /\ allocated
  /\ last.op = "apply_gradients" /\ last.committed
  /\ updates = 1
  /\ lastUpdate = << 3, 1 >>
  /\ values = << 0 - 3, 0 - 1 >>

\* C4 as stated: 0 <= c < N, every accumulator buffer is zero exactly when
\* c = 0, and c = 0 right after every commit.
C4_BuffersZeroIffCounterZero ==
  Configured =>
    /\ model_step \in 0..(N - 1)
    /\ \A p \in DOMAIN accum : (accum[p] = 0 <=> model_step = 0)
    /\ (last.op = "apply_gradients" /\ last.committed) => model_step = 0

\* C4 as amended: 0 <= c < N, every accumulator buffer is zero when c = 0
\* (a buffer may also be zero when c # 0: the gradients received so far may
\* sum to zero), and c = 0 right after every commit.
C4_BuffersZeroWhenCounterZero ==
  Configured =>
    /\ model_step \in 0..(N - 1)
    /\ model_step = 0 => \A p \in DOMAIN accum : accum[p] = 0
    /\ (last.op = "apply_gradients" /\ last.committed) => model_step = 0

C4_Witness ==
  /\ Configured /\ N = 2
  /\ allocated
  /\ last.op = "apply_gradients" /\ last.committed
  /\ model_step = 0
  /\ accum = << 0, 0 >>
  /\ lastUpdate = << 2, 1 >>

\* C5: the built flag is true if and only if the parameters are allocated.
C5_BuiltIffAllocated == built <=> allocated

\* C6: a create_variables call made after one that returned runs no forward
\* pass, allocates nothing and leaves the parameter set as it was.
C6_CreateVariablesIdempotent ==
  [][(created >= 1 /\ created' = created + 1) =>
       /\ forwardCount' = forwardCount
       /\ allocations' = allocations
       /\ allocated' = allocated
       /\ values' = values
       /\ built' = built]_vars

C6_Witness ==
  /\ last.op = "create_variables"
  /\ created = 2
  /\ forwardCount = 1
  /\ allocations = 1
  /\ allocated

\* C7: compute_gradients or apply_gradients on a model whose parameters are
\* not allocated fails with an UninitializedModelError.
C7_UnallocatedRaises ==
  (last.op \in {"compute_gradients", "apply_gradients"}
   /\ ~last.allocatedBefore) => last.err = "UninitializedModelError"

\* C8: the slots of an optimizer are created at most once, only with the
\* parameters allocated, and over the final trainable variables.
C8_SlotsOnceAfterAllocation ==
  \A o \in Optimizers :
    /\ slotCreations[o] <= 1
    /\ slotCreations[o] >= 1 =>
         /\ allocated
         /\ hypers[o]
         /\ slotVars[o] = Range(trainable_variables)
         /\ slotVars[o] # {}

C8_Witness ==
  /\ slotCreations["opt1"] = 1
  /\ slotVars["opt1"] = ParamIds
  /\ created = 2
  /\ inputterBuilds = 2

\* C9: with gradients_accum = 1, or with no gradients_accum configured,
\* every apply_gradients call commits, and the parameters and the step
\* counter are those of a run that applies each gradient directly.
C9_AccumOneIsDirect ==
  (gradients_accum = << >> \/ gradients_accum = << 1 >>) =>
    /\ updates = applyCalls
    /\ values = direct.values
    /\ step = direct.step
    /\ model_step = 0

C9_Witness ==
  /\ gradients_accum = << >>
  /\ allocated
  /\ applyCalls = 2
  /\ step = 2
  /\ values = << 0 - 2, 0 - 1 >>

RequiredKeys == {"learning_rate", "optimizer"}

\* C10 as stated: get_optimizer on a configuration that lacks learning_rate
\* or optimizer fails with the missing key's error before any schedule or
\* optimizer is constructed.
C10_MissingKeyFailsFirst ==
  (last.op = "get_optimizer" /\ last.keys # RequiredKeys) =>
    /\ last.err = KeyError
    /\ ~last.optimizer
    /\ ~last.schedule

\* C10 as amended: get_optimizer on a configuration that lacks learning_rate
\* or optimizer fails with the missing key's error and constructs no
\* optimizer; no schedule is constructed when learning_rate is the missing
\* key (with learning_rate and decay_type present and optimizer missing, the
\* schedule is constructed before the failure).
C10_MissingKeyFails ==
  (last.op = "get_optimizer" /\ last.keys # RequiredKeys) =>
    /\ last.err = KeyError
    /\ ~last.optimizer
    /\ "learning_rate" \notin last.keys => ~last.schedule

C10_Witness ==
  /\ last.op = "get_optimizer"
  /\ last.keys = {"learning_rate"}
  /\ last.err = KeyError
  /\ last.schedule
  /\ ~last.optimizer

\* C11: the learning-rate schedule is evaluated once per commit and on no
\* other call, and the step it is evaluated at is the number of updates
\* applied before that commit, not the number of apply_gradients calls.
C11_ScheduleFollowsCommits ==
  Configured =>
    /\ lrEvals = applyCalls \div N
    /\ lrEvals = updates
    /\ lrStep = updates - 1
    /\ lrEvals >= 1 => lrStep = step - 1

C11_Witness ==
  /\ Configured /\ N = 2
  /\ allocated
  /\ applyCalls = 3
  /\ model_step = 1
  /\ lrEvals = 1
  /\ lrStep = 0

\* C12: a negative regularization scale or a clip_gradients threshold that
\* is not positive is rejected with an InvalidConfigError and never reaches
\* a gradient computation.
C12_InvalidConfigRejected ==
  (/\ last.op = "compute_gradients"
   /\ \/ (last.scale # << >> /\ last.scale[1] < 0)
      \/ (last.clip # << >> /\ last.clip[1] <= 0)) =>
    /\ last.err = "InvalidConfigError"
    /\ last.steps = << >>

IsOpStep(op) == ops' = ops + 1 /\ last'.op = op

\* C13: a build call on a model that is already built changes neither the
\* model nor the examples inputter, and no build call allocates parameters.
C13_BuildIdempotent ==
  [][IsOpStep("build") =>
       /\ allocated' = allocated
       /\ allocations' = allocations
       /\ values' = values
       /\ built => (built' /\ inputterBuilds' = inputterBuilds)]_vars

C15_OnlyApplyChangesTraining ==
  [][(\E op \in {"initialize", "build", "get_optimizer", "compute_gradients"} :
        IsOpStep(op)) =>
       /\ model_step' = model_step
       /\ accum' = accum
       /\ step' = step
       /\ values' = values]_vars

C15_Witness ==
  /\ last.op = "compute_gradients"
  /\ allocated
  /\ Configured /\ N = 2
  /\ model_step = 1
  /\ accum = << 1, 1 >>
  /\ applyCalls = 1

Count(seq, x) == Cardinality({ i \in DOMAIN seq : seq[i] = x })
Position(seq, x) == CHOOSE i \in DOMAIN seq : seq[i] = x

\* C16: compute_gradients differentiates exactly once; the regularization
\* penalty is added exactly once, before the differentiation, when a
\* regularization is configured and never otherwise; the clipping is applied
\* exactly once, after the differentiation, when clip_gradients is
\* configured and never otherwise.
C16_ComputeOrder ==
  last.op = "compute_gradients" =>
    LET st == last.steps IN
    /\ Count(st, "get_gradients") = 1
    /\ Count(st, "regularization_penalty")
         = (IF last.scale # << >> THEN 1 ELSE 0)
    /\ Count(st, "clip_by_global_norm") = (IF last.clip # << >> THEN 1 ELSE 0)
    /\ last.scale # << >> =>
         Position(st, "regularization_penalty") < Position(st, "get_gradients")
    /\ last.clip # << >> =>
         Position(st, "clip_by_global_norm") > Position(st, "get_gradients")
    /\ Len(st) = 1 + Len(last.scale) + Len(last.clip)

C16_Witness ==
  /\ last.op = "compute_gradients"
  /\ allocated
  /\ last.nvars = NumParams
  /\ last.scale = << 1 >>
  /\ last.clip = << 1 >>
  /\ Len(last.steps) = 3

\* C17: when create_variables returns normally with an optimizer given, the
\* optimizer's hyperparameter state and a slot for every trainable variable
\* exist.
C17_SlotsExistOnReturn ==
  (last.op = "create_variables" /\ last.err = NoError /\ last.opt # None) =>
    /\ hypers[last.opt]
    /\ slotCreations[last.opt] >= 1
    /\ slotVars[last.opt] = Range(trainable_variables)

\* C18 (as stated): however create_variables calls interleave, the model
\* is dry-run at most once by create_variables and each optimizer's slots
\* are created at most once.
C18_InterleavedAtMostOnce ==
  /\ dryRuns <= 1
  /\ \A o \in Optimizers : slotCreations[o] <= 1

\* C18 (amended): as long as no create_variables call began while another
\* one was between its built test and its return (the calls are
\* serialized), the model is dry-run at most once by create_variables and
\* each optimizer's slots are created at most once.
C18_SerializedAtMostOnce ==
  ~overlapped =>
    /\ dryRuns <= 1
    /\ \A o \in Optimizers : slotCreations[o] <= 1

\* two serialized calls with the same optimizer have both returned: one dry
\* run, one slot creation
C18_Witness ==
  /\ ~overlapped
  /\ \A t \in Callers : calls[t].pc = "done" /\ calls[t].opt = "opt1"
  /\ dryRuns = 1
  /\ allocations = 1
  /\ slotCreations["opt1"] = 1
  /\ created = NumCallers

\* C19: an apply_gradients call on a model that has its parameters, when
\* it returns without an error, received as many gradients as it has
\* target parameters and paired every one of them: no gradient is dropped
\* and no target is left without a gradient.
C19_NeverPartial ==
  (last.op = "apply_gradients" /\ last.err = NoError
     /\ last.allocatedBefore) =>
    /\ last.ngrads = last.nvars
    /\ last.npairs = last.nvars

====
